---- MODULE Spec2Model ----
(***************************************************************************)
(* Webhook delivery pipeline of StellarSplit: subscription registry        *)
(* (WebhooksService), dispatch trigger and rate limiter                    *)
(* (WebhookDeliveryService.triggerEvent / queueDelivery / checkRateLimit), *)
(* the Bull delivery queue and the delivery worker                         *)
(* (WebhookProcessor.handleDelivery / processDelivery).                    *)
(*                                                                         *)
(* Every await of a handler is a point where other handlers may run, so a  *)
(* handler is a sequence of steps; a step runs from one database/HTTP      *)
(* round trip to the next.                                                 *)
(***************************************************************************)
EXTENDS Integers, Sequences, FiniteSets, TLC

-----------------------------------------------------------------------------
(* Program constants *)

MAX_RETRIES == 3
RATE_LIMIT_WINDOW_MS == 60000
MAX_REQUESTS_PER_WINDOW == 10
FAILURE_THRESHOLD == 10

(* Bounds of the model *)

MaxDeliveries == 2
MaxTicks == 2
MaxCalls == 12
MaxOtherCalls == 2
MaxFailureCount == 11
MaxRecords == 4
Consumers == 2

-----------------------------------------------------------------------------
(* Values *)

\* A nullable column or optional argument: <<>> when unset, <<v>> when set.
Null == <<>>
Some(v) == <<v>>

WebhookIds == {"w1", "w2"}
UserIds == {"u1", "u2"}
EventTypes == {"split.created", "payment.made"}
Payloads == {"payload"}
Secrets == {"secret-1", "secret-2"}

GoodUrl == "https://example.com/webhook"
OtherUrl == "http://newurl.com/webhook"
FtpUrl == "ftp://example.com/webhook"
BadUrl == "not-a-url"
EmptyUrl == ""
Urls == {GoodUrl, OtherUrl, FtpUrl, BadUrl, EmptyUrl}

DeliveryIds == 1..MaxDeliveries

PENDING == "pending"
SUCCESS == "success"
FAILED == "failed"

\* A string is kept as what produced it and its length.
Text(id, len) == [id |-> id, len |-> len]
Min(a, b) == IF a < b THEN a ELSE b
Substring(s, n) == [s EXCEPT !.len = Min(s.len, n)]

\* Number of decimal digits of a status code.
Digits(n) == IF n < 10 THEN 1 ELSE IF n < 100 THEN 2 ELSE IF n < 1000 THEN 3 ELSE 4

-----------------------------------------------------------------------------
VARIABLES
    webhooks,       \* table webhooks: id -> row
    deliveries,     \* table webhook_deliveries: id -> row
    issuedWebhooks, \* webhook ids generated so far (uuids are never reused)
    issuedDeliveries, \* number of delivery ids generated so far
    jobs,           \* webhook_queue: job id (= delivery id) -> job
    rateLimitMap,   \* WebhookDeliveryService.rateLimitMap
    trig,           \* the triggerEvent call in progress, or the last one
    now,            \* Date.now()
    ticks,          \* number of clock advances so far
    callLog,        \* per webhook, the calls of checkRateLimit: time and result
    reply           \* what the last query of the delivery service returned

vars == <<webhooks, deliveries, issuedWebhooks, issuedDeliveries, jobs,
          rateLimitMap, trig, now, ticks, callLog, reply>>

-----------------------------------------------------------------------------
(* Tables *)

Put(table, id, row) ==
    [k \in DOMAIN table \cup {id} |-> IF k = id THEN row ELSE table[k]]

Drop(table, ids) == [k \in DOMAIN table \ ids |-> table[k]]

\* Repository<Webhook>.save: inserts the row when the id is not stored, updates
\* it otherwise; every column takes the entity's value.
SaveWebhook(table, id, row) == Put(table, id, row)

CanSaveDelivery_NoForeignKey(whs, row) == TRUE

\* Repository<WebhookDelivery>.save: as above, under the foreign key
\* webhook_deliveries.webhookId -> webhooks.id.
CanSaveDelivery(whs, row) == row.webhookId \in DOMAIN whs

\* Deleting a webhook row deletes its deliveries (onDelete: CASCADE).
CascadeDeliveries(table, id) ==
    Drop(table, {d \in DOMAIN table : table[d].webhookId = id})

-----------------------------------------------------------------------------
(* WebhooksService *)

\* new URL(url).protocol, or "TypeError" when the constructor throws.
UrlProtocol(url) ==
    CASE url = GoodUrl -> "https:"
      [] url = OtherUrl -> "http:"
      [] url = FtpUrl -> "ftp:"
      [] OTHER -> "TypeError"

isValidUrl(url) == UrlProtocol(url) \in {"http:", "https:"}

NotFoundException == "NotFoundException"
BadRequestException == "BadRequestException"

\* What a call of the service leaves: the exception it throws, if any, and
\* the table webhooks.
Threw(exception, whs) == [error |-> Some(exception), table |-> whs]
Returned(whs) == [error |-> Null, table |-> whs]

NewWebhook_DtoWins(dto) ==
    [f \in DOMAIN dto \cup {"isActive", "failureCount", "lastTriggeredAt"} |->
        IF f \in DOMAIN dto THEN dto[f]
        ELSE IF f = "isActive" THEN TRUE
        ELSE IF f = "failureCount" THEN 0
        ELSE Null]

\* { ...createWebhookDto, isActive: true, failureCount: 0 }; the columns the
\* object does not name keep their default.
NewWebhook(dto) ==
    [f \in DOMAIN dto \cup {"isActive", "failureCount", "lastTriggeredAt"} |->
        IF f = "isActive" THEN TRUE
        ELSE IF f = "failureCount" THEN 0
        ELSE IF f \in DOMAIN dto THEN dto[f]
        ELSE Null]

\* Object.assign(webhook, updateWebhookDto)
Assign(row, dto) ==
    [f \in DOMAIN row |-> IF f \in DOMAIN dto THEN dto[f] ELSE row[f]]

FreshWebhookId == CHOOSE id \in WebhookIds \ issuedWebhooks : TRUE

CreateOutcome(whs, id, dto) ==
    IF ~isValidUrl(dto.url)
    THEN Threw(BadRequestException, whs)
    ELSE Returned(SaveWebhook(whs, id, NewWebhook(dto)))

\* create(createWebhookDto); the row gets a generated id.
Create(dto) ==
    /\ issuedWebhooks # WebhookIds
    /\ LET o == CreateOutcome(webhooks, FreshWebhookId, dto) IN
       /\ webhooks' = o.table
       /\ issuedWebhooks' = IF o.error = Null
                             THEN issuedWebhooks \cup {FreshWebhookId}
                             ELSE issuedWebhooks
    /\ UNCHANGED <<deliveries, issuedDeliveries, jobs, rateLimitMap, trig, now,
                   ticks, callLog, reply>>

\* updateWebhookDto.url && !this.isValidUrl(updateWebhookDto.url): the check
\* is made when the patch has a url that is truthy (not the empty string).
UpdateValid(dto) ==
    ("url" \in DOMAIN dto /\ dto.url # EmptyUrl) => isValidUrl(dto.url)

UpdateOutcome(whs, id, dto) ==
    IF id \notin DOMAIN whs THEN Threw(NotFoundException, whs)
    ELSE IF ~UpdateValid(dto) THEN Threw(BadRequestException, whs)
    ELSE Returned(SaveWebhook(whs, id, Assign(whs[id], dto)))

\* update(id, updateWebhookDto)
Update(id, dto) ==
    /\ webhooks' = UpdateOutcome(webhooks, id, dto).table
    /\ UNCHANGED <<deliveries, issuedWebhooks, issuedDeliveries, jobs,
                   rateLimitMap, trig, now, ticks, callLog, reply>>

Remove(id) ==
    /\ id \in DOMAIN webhooks
    /\ webhooks' = Drop(webhooks, {id})
    /\ deliveries' = CascadeDeliveries(deliveries, id)
    /\ UNCHANGED <<issuedWebhooks, issuedDeliveries, jobs, rateLimitMap, trig,
                   now, ticks, callLog, reply>>

Incremented_ThresholdAbove(row) ==
    [row EXCEPT !.failureCount = @ + 1,
                !.isActive = IF row.failureCount + 1 > 10 THEN FALSE ELSE @]

\* webhook.failureCount += 1; if (webhook.failureCount >= 10) isActive = false
Incremented(row) ==
    [row EXCEPT !.failureCount = @ + 1,
                !.isActive = IF row.failureCount + 1 >= 10 THEN FALSE ELSE @]

IncrementOutcome(whs, id) ==
    IF id \notin DOMAIN whs THEN Threw(NotFoundException, whs)
    ELSE Returned(SaveWebhook(whs, id, Incremented(whs[id])))

\* incrementFailureCount(id)
IncrementFailureCount(id) ==
    /\ id \in DOMAIN webhooks => webhooks[id].failureCount < MaxFailureCount
    /\ webhooks' = IncrementOutcome(webhooks, id).table
    /\ UNCHANGED <<deliveries, issuedWebhooks, issuedDeliveries, jobs,
                   rateLimitMap, trig, now, ticks, callLog, reply>>

-----------------------------------------------------------------------------
(* WebhookDeliveryService: rate limiter *)

checkRateLimit_OffByOne(m, webhookId, t) ==
    LET limit == m[webhookId] IN
    IF limit = Null \/ t > limit[1].resetAt
    THEN [admit |-> TRUE,
          map |-> [m EXCEPT ![webhookId] =
                      Some([count |-> 1, resetAt |-> t + RATE_LIMIT_WINDOW_MS])]]
    ELSE IF limit[1].count > MAX_REQUESTS_PER_WINDOW
    THEN [admit |-> FALSE, map |-> m]
    ELSE [admit |-> TRUE,
          map |-> [m EXCEPT ![webhookId] =
                      Some([limit[1] EXCEPT !.count = @ + 1])]]

checkRateLimit_ResetsWhenFull(m, webhookId, t) ==
    LET limit == m[webhookId] IN
    IF limit = Null \/ t > limit[1].resetAt
          \/ limit[1].count >= MAX_REQUESTS_PER_WINDOW
    THEN [admit |-> TRUE,
          map |-> [m EXCEPT ![webhookId] =
                      Some([count |-> 1, resetAt |-> t + RATE_LIMIT_WINDOW_MS])]]
    ELSE [admit |-> TRUE,
          map |-> [m EXCEPT ![webhookId] =
                      Some([limit[1] EXCEPT !.count = @ + 1])]]

\* The outcome of checkRateLimit(webhookId) at time t on the map m: what it
\* returns and the map it leaves.
checkRateLimit(m, webhookId, t) ==
    LET limit == m[webhookId] IN
    IF limit = Null \/ t > limit[1].resetAt
    THEN [admit |-> TRUE,
          map |-> [m EXCEPT ![webhookId] =
                      Some([count |-> 1, resetAt |-> t + RATE_LIMIT_WINDOW_MS])]]
    ELSE IF limit[1].count >= MAX_REQUESTS_PER_WINDOW
    THEN [admit |-> FALSE, map |-> m]
    ELSE [admit |-> TRUE,
          map |-> [m EXCEPT ![webhookId] =
                      Some([limit[1] EXCEPT !.count = @ + 1])]]

-----------------------------------------------------------------------------
(* WebhookDeliveryService: dispatch *)

FindActiveForEvent_IgnoresActive(whs, eventType) ==
    {id \in DOMAIN whs : eventType \in whs[id].events}

\* The query of triggerEvent: isActive = true AND events @> [eventType].
FindActiveForEvent(whs, eventType) ==
    {id \in DOMAIN whs : whs[id].isActive /\ eventType \in whs[id].events}

\* userId ? webhooks.filter((w) => w.userId === userId) : webhooks
FilterByUser(whs, ids, userId) ==
    IF userId # Null THEN {id \in ids : whs[id].userId = userId[1]} ELSE ids

IdleTrigger ==
    [st |-> "idle", eventType |-> "", payload |-> "", userId |-> Null,
     db |-> <<>>, todo |-> {}, handled |-> <<>>, admitted |-> {},
     rejected |-> {}, created |-> {}, queued |-> {}, target |-> Null]

\* triggerEvent up to the loop: the query, the filter, and the return when
\* nothing matches. trig.db keeps the entities the query saw.
TriggerEvent(eventType, payload, userId) ==
    /\ trig.st = "idle"
    /\ LET matched == FilterByUser(webhooks,
                                   FindActiveForEvent(webhooks, eventType),
                                   userId)
       IN trig' = [IdleTrigger EXCEPT
                      !.st = IF matched = {} THEN "returned" ELSE "running",
                      !.eventType = eventType, !.payload = payload,
                      !.userId = userId, !.db = webhooks, !.todo = matched]
    /\ UNCHANGED <<webhooks, deliveries, issuedWebhooks, issuedDeliveries, jobs,
                   rateLimitMap, now, ticks, callLog, reply>>

\* WebhooksController.testWebhook(id, testDto): findOne(id), which throws
\* NotFoundException for an unknown id, then triggerEvent with the userId of
\* the webhook found. trig.target keeps the id the test was asked for.
TestWebhook(id, eventType, payload) ==
    /\ id \in DOMAIN webhooks
    /\ trig.st = "idle"
    /\ LET matched == FilterByUser(webhooks,
                                   FindActiveForEvent(webhooks, eventType),
                                   Some(webhooks[id].userId))
       IN trig' = [IdleTrigger EXCEPT
                      !.st = IF matched = {} THEN "returned" ELSE "running",
                      !.eventType = eventType, !.payload = payload,
                      !.userId = Some(webhooks[id].userId), !.db = webhooks,
                      !.todo = matched, !.target = Some(id)]
    /\ UNCHANGED <<webhooks, deliveries, issuedWebhooks, issuedDeliveries, jobs,
                   rateLimitMap, now, ticks, callLog, reply>>

NewDelivery(webhookId, eventType, payload) ==
    [webhookId |-> webhookId, eventType |-> eventType, payload |-> payload,
     status |-> PENDING, attemptCount |-> 0, httpStatus |-> Null,
     responseBody |-> Null, errorMessage |-> Null, deliveredAt |-> Null]

JobData(deliveryId, webhookId, webhook, eventType, payload) ==
    [deliveryId |-> deliveryId, webhookId |-> webhookId, url |-> webhook.url,
     secret |-> webhook.secret, eventType |-> eventType, payload |-> payload]

NewJob(data) ==
    [data |-> data, attempts |-> MAX_RETRIES, attemptsMade |-> 0,
     st |-> "waiting", pc |-> "none", delivery |-> Null, request |-> Null,
     response |-> Null, webhook |-> Null]

\* Where the loop of triggerEvent stands once webhook id has been handled.
AfterDispatch_StopsLoop(t, id) ==
    [t EXCEPT !.todo = {}, !.handled = Append(@, id), !.st = "returned"]

AfterDispatch(t, id) ==
    [t EXCEPT !.todo = @ \ {id}, !.handled = Append(@, id),
              !.st = IF t.todo \ {id} = {} THEN "returned" ELSE "running"]

\* The loop stops at the first queueDelivery that rejects.
Thrown(t) == [t EXCEPT !.todo = {}, !.st = "threw"]

Faults == {"none", "save", "add"}

\* One iteration of the loop of triggerEvent: queueDelivery(webhook) for one
\* of the entities the query returned. fault: which of the two awaited calls,
\* deliveryRepository.save or webhookQueue.add, rejects (a lost connection).
QueueDelivery(id, fault) ==
    /\ trig.st = "running"
    /\ id \in trig.todo
    /\ LET r == checkRateLimit(rateLimitMap, id, now)
           deliveryId == issuedDeliveries + 1
           row == NewDelivery(id, trig.eventType, trig.payload)
           data == JobData(deliveryId, id, trig.db[id], trig.eventType,
                           trig.payload)
       IN
       /\ rateLimitMap' = r.map
       /\ IF ~r.admit
          THEN /\ trig' = AfterDispatch([trig EXCEPT !.rejected = @ \cup {id}], id)
               /\ fault = "none"
               /\ UNCHANGED <<deliveries, issuedDeliveries, jobs>>
          ELSE IF fault = "save" \/ ~CanSaveDelivery(webhooks, row)
          THEN /\ trig' = Thrown([trig EXCEPT !.admitted = @ \cup {id}])
               /\ fault # "add"
               /\ UNCHANGED <<deliveries, issuedDeliveries, jobs>>
          ELSE /\ issuedDeliveries < MaxDeliveries
               /\ deliveries' = Put(deliveries, deliveryId, row)
               /\ issuedDeliveries' = deliveryId
               /\ IF fault = "add"
                  THEN /\ trig' = Thrown([trig EXCEPT
                                !.admitted = @ \cup {id},
                                !.created = @ \cup {[id |-> deliveryId, row |-> row]}])
                       /\ UNCHANGED jobs
                  ELSE /\ trig' = AfterDispatch([trig EXCEPT
                                !.admitted = @ \cup {id},
                                !.created = @ \cup {[id |-> deliveryId, row |-> row]},
                                !.queued = @ \cup {data}], id)
                       /\ jobs' = Put(jobs, deliveryId, NewJob(data))
    /\ UNCHANGED <<webhooks, issuedWebhooks, now, ticks, callLog, reply>>

-----------------------------------------------------------------------------
(* WebhookDeliveryService: statistics *)

\* deliveryRepository.find({ where: { webhookId } })
FindDeliveries(table, webhookId) ==
    {d \in DOMAIN table : table[d].webhookId = webhookId}

\* deliveries.filter((d) => d.status === status).length
CountStatus(table, ids, status) ==
    Cardinality({d \in ids : table[d].status = status})

\* A quotient is kept as the fraction that gives it.
Fraction(num, den) == [num |-> num, den |-> den]

SuccessRate_OfSettled(total, success, failed) ==
    IF success + failed > 0 THEN Fraction(success * 100, success + failed)
    ELSE Fraction(0, 1)

\* total > 0 ? (success / total) * 100 : 0
SuccessRate(total, success, failed) ==
    IF total > 0 THEN Fraction(success * 100, total) ELSE Fraction(0, 1)

Stats(table, webhookId) ==
    LET ids == FindDeliveries(table, webhookId)
        success == CountStatus(table, ids, SUCCESS)
        failed == CountStatus(table, ids, FAILED)
    IN [total |-> Cardinality(ids),
        success |-> success,
        failed |-> failed,
        pending |-> CountStatus(table, ids, PENDING),
        successRate |-> SuccessRate(Cardinality(ids), success, failed)]

\* getDeliveryStats(webhookId)
GetDeliveryStats(webhookId) ==
    /\ reply' = Some([webhookId |-> webhookId,
                      stats |-> Stats(deliveries, webhookId)])
    /\ UNCHANGED <<webhooks, deliveries, issuedWebhooks, issuedDeliveries, jobs,
                   rateLimitMap, trig, now, ticks, callLog>>

-----------------------------------------------------------------------------
(* Bull queue 'webhook_queue' *)

\* Jobs one consumer processes at the same time: @Process('deliver') names no
\* concurrency, and Bull's default is 1.
Concurrency == 1

ActiveJobs == {j \in DOMAIN jobs : jobs[j].st = "active"}

Idle(job) ==
    [job EXCEPT !.pc = "none", !.delivery = Null, !.request = Null,
                !.response = Null, !.webhook = Null]

FailAttempt_OneMore(job) ==
    [job EXCEPT
        !.pc = "none", !.delivery = Null, !.request = Null, !.response = Null,
        !.webhook = Null,
        !.attemptsMade = @ + 1,
        !.st = IF job.attemptsMade + 1 > job.attempts THEN "failed" ELSE "waiting"]

\* The handler threw: the job waits for its next attempt (after the backoff
\* delay) while attempts remain, and is kept as failed otherwise
\* (removeOnFail: false).
FailAttempt(job) ==
    [Idle(job) EXCEPT
        !.attemptsMade = @ + 1,
        !.st = IF job.attemptsMade + 1 >= job.attempts THEN "failed" ELSE "waiting"]

CompleteJob_Retried(js, j) == [js EXCEPT ![j] = FailAttempt(@)]

\* The handler returned: the job is removed (removeOnComplete: true).
CompleteJob(js, j) == Drop(js, {j})

-----------------------------------------------------------------------------
(* WebhookDeliveryService.processDelivery, run by WebhookProcessor.handleDelivery *)

IsSuccess_Includes300(status) == status >= 200 /\ status <= 300

IsSuccess(status) == status >= 200 /\ status < 300

\* `HTTP ${response.status}: ${response.statusText}`
HttpErrorMessage(response) ==
    [id |-> <<"HTTP", response.status, response.statusText.id>>,
     len |-> 5 + Digits(response.status) + 2 + response.statusText.len]

Responded_ClearsError(delivery, response, t) ==
    [delivery EXCEPT
        !.status = IF IsSuccess(response.status) THEN SUCCESS ELSE FAILED,
        !.httpStatus = Some(response.status),
        !.deliveredAt = Some(t),
        !.responseBody = Some(Substring(response.data, 1000)),
        !.errorMessage = IF IsSuccess(response.status)
                         THEN Null ELSE Some(HttpErrorMessage(response))]

\* The delivery entity after a response (lines 176-200).
Responded(delivery, response, t) ==
    LET d == [delivery EXCEPT
                 !.status = IF IsSuccess(response.status) THEN SUCCESS ELSE FAILED,
                 !.httpStatus = Some(response.status),
                 !.deliveredAt = Some(t),
                 !.responseBody = Some(Substring(response.data, 1000))]
    IN IF IsSuccess(response.status)
       THEN d
       ELSE [d EXCEPT !.errorMessage = Some(HttpErrorMessage(response))]

Caught_WholeMessage(delivery, message) ==
    [delivery EXCEPT !.status = FAILED, !.errorMessage = Some(message)]

Caught_KeepsStatus(delivery, message) ==
    [delivery EXCEPT !.errorMessage = Some(Substring(message, 500))]

Caught_Delivered(delivery, message) ==
    [delivery EXCEPT !.status = FAILED,
                     !.errorMessage = Some(Substring(message, 500)),
                     !.deliveredAt = Some(now)]

\* The delivery entity in the catch block (lines 226-227).
Caught(delivery, message) ==
    [delivery EXCEPT !.status = FAILED,
                     !.errorMessage = Some(Substring(message, 500))]

RecordFailure_NoDeactivation(row) ==
    [row EXCEPT !.failureCount = @ + 1]

RecordFailure_AlwaysDeactivates(row) ==
    [row EXCEPT !.failureCount = @ + 1, !.isActive = FALSE]

RecordFailure_SkipsInactive(row) ==
    IF row.isActive
    THEN [row EXCEPT !.failureCount = @ + 1,
                     !.isActive = IF row.failureCount + 1 >= FAILURE_THRESHOLD
                                  THEN FALSE ELSE @]
    ELSE row

\* failureCount += 1; if (failureCount >= 10) isActive = false
RecordFailure(row) ==
    [row EXCEPT !.failureCount = @ + 1,
                !.isActive = IF row.failureCount + 1 >= FAILURE_THRESHOLD
                             THEN FALSE ELSE @]

\* failureCount = 0; lastTriggeredAt = new Date()
RecordSuccess(row, t) ==
    [row EXCEPT !.failureCount = 0, !.lastTriggeredAt = Some(t)]

\* webhookRepository.findOne({ where: { id } })
FindWebhook(whs, id) == IF id \in DOMAIN whs THEN Some(whs[id]) ELSE Null

\* The message of the error a rejected save raises.
QueryFailed == Text("QueryFailedError", 80)

\* JSON.stringify(payload)
JsonStringify(payload) == <<"json", payload>>

\* crypto.createHmac('sha256', secret).update(payload).digest('hex'): the
\* digest is kept as the key and the text it was computed from.
generateSignature(payload, secret) == <<"hmac-sha256", secret, payload>>

\* The request of an attempt built from the webhook as it is stored now.
Request_CurrentWebhook(data, t) ==
    [method |-> "POST",
     url |-> IF data.webhookId \in DOMAIN webhooks
             THEN webhooks[data.webhookId].url ELSE data.url,
     signature |-> generateSignature(JsonStringify(data.payload),
                      IF data.webhookId \in DOMAIN webhooks
                      THEN webhooks[data.webhookId].secret ELSE data.secret),
     timestamp |-> t,
     event |-> data.eventType,
     body |-> [event |-> data.eventType, data |-> data.payload, timestamp |-> t]]

\* The request axios sends (lines 147-171): the url and the headers
\* X-Webhook-Signature, X-Webhook-Timestamp, X-Webhook-Event, and the body.
Request(data, t) ==
    [method |-> "POST",
     url |-> data.url,
     signature |-> generateSignature(JsonStringify(data.payload), data.secret),
     timestamp |-> t,
     event |-> data.eventType,
     body |-> [event |-> data.eventType, data |-> data.payload, timestamp |-> t]]

\* A consumer of the queue that runs fewer than `capacity` jobs takes a
\* waiting job: handleDelivery calls processDelivery, which loads the
\* delivery, counts the attempt and saves it (lines 129-145), then sends the
\* POST and awaits it (lines 146-173).
Consume(j, capacity) ==
    /\ j \in DOMAIN jobs
    /\ jobs[j].st = "waiting"
    /\ Cardinality(ActiveJobs) < capacity
    /\ IF jobs[j].data.deliveryId \in DOMAIN deliveries
       THEN LET d == [deliveries[jobs[j].data.deliveryId] EXCEPT
                         !.attemptCount = @ + 1]
            IN /\ deliveries' = Put(deliveries, jobs[j].data.deliveryId, d)
               /\ jobs' = [jobs EXCEPT ![j] =
                     [@ EXCEPT !.st = "active", !.pc = "http",
                               !.delivery = Some(d),
                               !.request = Some(Request(jobs[j].data, now))]]
       ELSE /\ jobs' = [jobs EXCEPT ![j] = FailAttempt(@)]
            /\ UNCHANGED deliveries
    /\ UNCHANGED <<webhooks, issuedWebhooks, issuedDeliveries, rateLimitMap,
                   trig, now, ticks, callLog, reply>>

\* One instance of the application consumes the queue.
StartAttempt(j) == Consume(j, Concurrency)

\* axios resolves with a response (validateStatus accepts every status):
\* lines 173-207, up to the read of the webhook. A save that rejects is
\* caught by the catch block, whose own save rejects in turn and leaves
\* processDelivery before the webhook is read.
HttpResponse(j, response) ==
    /\ j \in DOMAIN jobs
    /\ jobs[j].pc = "http"
    /\ LET d == Responded(jobs[j].delivery[1], response, now) IN
       IF CanSaveDelivery(webhooks, d)
       THEN /\ deliveries' = Put(deliveries, jobs[j].data.deliveryId, d)
            /\ jobs' = [jobs EXCEPT ![j] =
                  [@ EXCEPT !.pc = "stats", !.delivery = Some(d),
                            !.response = Some(response.status),
                            !.webhook = FindWebhook(webhooks, jobs[j].data.webhookId)]]
       ELSE /\ jobs' = [jobs EXCEPT ![j] = FailAttempt(@)]
            /\ UNCHANGED deliveries
    /\ UNCHANGED <<webhooks, issuedWebhooks, issuedDeliveries, rateLimitMap,
                   trig, now, ticks, callLog, reply>>

\* axios rejects (timeout, DNS, connection refused): lines 221-234, up to the
\* read of the webhook.
HttpThrow(j, message) ==
    /\ j \in DOMAIN jobs
    /\ jobs[j].pc = "http"
    /\ LET d == Caught(jobs[j].delivery[1], message) IN
       IF CanSaveDelivery(webhooks, d)
       THEN /\ deliveries' = Put(deliveries, jobs[j].data.deliveryId, d)
            /\ jobs' = [jobs EXCEPT ![j] =
                  [@ EXCEPT !.pc = "catch", !.delivery = Some(d),
                            !.webhook = FindWebhook(webhooks, jobs[j].data.webhookId)]]
       ELSE /\ jobs' = [jobs EXCEPT ![j] = FailAttempt(@)]
            /\ UNCHANGED deliveries
    /\ UNCHANGED <<webhooks, issuedWebhooks, issuedDeliveries, rateLimitMap,
                   trig, now, ticks, callLog, reply>>

\* Lines 208-220: the webhook read at line 205 is changed and saved;
\* processDelivery returns and the job completes.
UpdateWebhookStats(j) ==
    /\ j \in DOMAIN jobs
    /\ jobs[j].pc = "stats"
    /\ IF jobs[j].webhook # Null
       THEN webhooks' = SaveWebhook(webhooks, jobs[j].data.webhookId,
                            IF IsSuccess(jobs[j].response[1])
                            THEN RecordSuccess(jobs[j].webhook[1], now)
                            ELSE RecordFailure(jobs[j].webhook[1]))
       ELSE UNCHANGED webhooks
    /\ jobs' = CompleteJob(jobs, j)
    /\ UNCHANGED <<deliveries, issuedWebhooks, issuedDeliveries, rateLimitMap,
                   trig, now, ticks, callLog, reply>>

CountsFailure_EveryAttempt(job) == job.webhook # Null

\* The failure is counted in the catch block when the attempt was the last.
CountsFailure(job) ==
    job.webhook # Null /\ job.delivery[1].attemptCount >= MAX_RETRIES

\* Lines 235-245: the webhook read at line 232 is changed and saved when the
\* attempt was the last one; the error is thrown again and the attempt fails.
UpdateWebhookFailure(j) ==
    /\ j \in DOMAIN jobs
    /\ jobs[j].pc = "catch"
    /\ IF CountsFailure(jobs[j])
       THEN webhooks' = SaveWebhook(webhooks, jobs[j].data.webhookId,
                                   RecordFailure(jobs[j].webhook[1]))
       ELSE UNCHANGED webhooks
    /\ jobs' = [jobs EXCEPT ![j] = FailAttempt(@)]
    /\ UNCHANGED <<deliveries, issuedWebhooks, issuedDeliveries, rateLimitMap,
                   trig, now, ticks, callLog, reply>>

-----------------------------------------------------------------------------------------------------------------------------------------------------
(* The caller of triggerEvent takes its result: the promise resolved or
   rejected. *)

TriggerReturn ==
    /\ trig.st \in {"returned", "threw"}
    /\ trig' = IdleTrigger
    /\ UNCHANGED <<webhooks, deliveries, issuedWebhooks, issuedDeliveries, jobs,
                   rateLimitMap, now, ticks, callLog, reply>>

-----------------------------------------------------------------------------
(* The clock *)

TickSteps == {1, RATE_LIMIT_WINDOW_MS}

Tick(step) ==
    /\ ticks < MaxTicks
    /\ now' = now + step
    /\ ticks' = ticks + 1
    /\ UNCHANGED <<webhooks, deliveries, issuedWebhooks, issuedDeliveries, jobs,
                   rateLimitMap, trig, callLog, reply>>

\* A call of checkRateLimit on its own, as queueDelivery makes it (line 77),
\* with the call logged.
Calls == Len(callLog["w1"]) + Len(callLog["w2"])

Admit(id) ==
    /\ Calls < MaxCalls
    /\ LET r == checkRateLimit(rateLimitMap, id, now) IN
       /\ rateLimitMap' = r.map
       /\ callLog' = [callLog EXCEPT ![id] = Append(@, [t |-> now, admit |-> r.admit])]
    /\ UNCHANGED <<webhooks, deliveries, issuedWebhooks, issuedDeliveries, jobs,
                   trig, now, ticks, reply>>

-----------------------------------------------------------------------------
(* The system *)

InitialFailureCounts == {0, FAILURE_THRESHOLD - 1}

InitialWebhook(n) ==
    [userId |-> "u1", url |-> GoodUrl, events |-> {"split.created"},
     secret |-> "secret-1", isActive |-> TRUE, failureCount |-> n,
     lastTriggeredAt |-> Null]

Init ==
    /\ \E n \in InitialFailureCounts : webhooks = [id \in {"w1"} |-> InitialWebhook(n)]
    /\ deliveries = <<>>
    /\ issuedWebhooks = {"w1"}
    /\ issuedDeliveries = 0
    /\ jobs = <<>>
    /\ rateLimitMap = [id \in WebhookIds |-> Null]
    /\ trig = IdleTrigger
    /\ now = 0
    /\ ticks = 0
    /\ callLog = [id \in WebhookIds |-> <<>>]
    /\ reply = Null

Optional(S) == {Null} \cup {Some(x) : x \in S}

Response(status) ==
    [status |-> status, statusText |-> Text("statusText", 9),
     data |-> Text("data", 1001)]

Timeout == Text("timeout of 5000ms exceeded", 26)

(* Registry, dispatch and delivery of one subscription, interleaved. *)

ActiveDtos == {[isActive |-> TRUE], [isActive |-> FALSE]}

Next ==
    \/ \E dto \in ActiveDtos : Update("w1", dto)
    \/ Remove("w1")
    \/ TriggerEvent("split.created", "payload", Null)
    \/ QueueDelivery("w1", "none")
    \/ TriggerReturn
    \/ \E j \in DeliveryIds : StartAttempt(j)
    \/ \E j \in DeliveryIds, s \in {200, 500} : HttpResponse(j, Response(s))
    \/ \E j \in DeliveryIds : HttpThrow(j, Timeout)
    \/ \E j \in DeliveryIds : UpdateWebhookStats(j)
    \/ \E j \in DeliveryIds : UpdateWebhookFailure(j)

Spec == Init /\ [][Next]_vars

-----------------------------------------------------------------------------
(* Registry and dispatch of two subscriptions; the jobs wait in the queue. *)

\* The second subscription: of the same or another owner, for the same or
\* another event.
DispatchDtos ==
    {[userId |-> u, url |-> OtherUrl, events |-> {e}, secret |-> "secret-2"] :
        u \in UserIds, e \in EventTypes} \
    {[userId |-> "u2", url |-> OtherUrl, events |-> {"payment.made"},
      secret |-> "secret-2"]}

InitDispatch == Init /\ webhooks["w1"].failureCount = 0

NextDispatch ==
    \/ \E dto \in DispatchDtos : Create(dto)
    \/ \E id \in WebhookIds, dto \in ActiveDtos : Update(id, dto)
    \/ \E e \in EventTypes, u \in Optional({"u1"}) : TriggerEvent(e, "payload", u)
    \/ \E id \in WebhookIds, f \in {"none", "save"} : QueueDelivery(id, f)
    \/ TriggerReturn

SpecDispatch == InitDispatch /\ [][NextDispatch]_vars

-----------------------------------------------------------------------------
(* The rate limiter alone, under an advancing clock. *)

\* The calls for w1 fill windows; a few calls for w2 run in between.
NextRateLimit ==
    \/ Admit("w1")
    \/ Len(callLog["w2"]) < MaxOtherCalls /\ Admit("w2")
    \/ \E step \in TickSteps : Tick(step)

SpecRateLimit == InitDispatch /\ [][NextRateLimit]_vars

-----------------------------------------------------------------------------
(* Delivery attempts of one subscription under every class of HTTP status. *)

HttpStatuses == {199, 200, 299, 300, 404, 500}

NextHttp ==
    \/ TriggerEvent("split.created", "payload", Null)
    \/ QueueDelivery("w1", "none")
    \/ TriggerReturn
    \/ Remove("w1")
    \/ \E j \in DeliveryIds : StartAttempt(j)
    \/ \E j \in DeliveryIds, s \in HttpStatuses : HttpResponse(j, Response(s))
    \/ \E j \in DeliveryIds : HttpThrow(j, Timeout)
    \/ \E j \in DeliveryIds : UpdateWebhookStats(j)
    \/ \E j \in DeliveryIds : UpdateWebhookFailure(j)

SpecHttp == InitDispatch /\ [][NextHttp]_vars

-----------------------------------------------------------------------------
(* Delivery attempts under responses and exceptions of every length. *)

\* Lengths of a response body, a status text and an exception message: empty,
\* short, at the limits of 500 and 1000 characters, and beyond them.
BodyLengths == {0, 1000, 1001}
StatusTextLengths == {0, 2, 600}
MessageLengths == {26, 500, 501}

ResponseOf(status, statusTextLen, dataLen) ==
    [status |-> status, statusText |-> Text("statusText", statusTextLen),
     data |-> Text("data", dataLen)]

ErrorOf(len) == Text("message", len)

NextText ==
    \/ TriggerEvent("split.created", "payload", Null)
    \/ QueueDelivery("w1", "none")
    \/ TriggerReturn
    \/ \E j \in DeliveryIds : StartAttempt(j)
    \/ \E j \in DeliveryIds, s \in {200, 500}, n \in StatusTextLengths,
          m \in BodyLengths : HttpResponse(j, ResponseOf(s, n, m))
    \/ \E j \in DeliveryIds, n \in MessageLengths : HttpThrow(j, ErrorOf(n))
    \/ \E j \in DeliveryIds : UpdateWebhookStats(j)
    \/ \E j \in DeliveryIds : UpdateWebhookFailure(j)

SpecText == InitDispatch /\ [][NextText]_vars

-----------------------------------------------------------------------------
(* The registry alone: create, update, remove and incrementFailureCount of
   two subscriptions. *)

\* Requests to create: every destination, with and without fields beyond
\* those of CreateWebhookDto.
CreateDtos ==
    {[userId |-> "u2", url |-> u, events |-> {"payment.made"},
      secret |-> "secret-2"] : u \in Urls}
    \cup
    {[userId |-> "u2", url |-> u, events |-> {"payment.made"},
      secret |-> "secret-2", isActive |-> FALSE, failureCount |-> 5] :
        u \in {GoodUrl, BadUrl}}

\* Patches: a destination, the flag, or both.
UpdateDtos ==
    {[url |-> u] : u \in Urls} \cup ActiveDtos
    \cup {[url |-> u, isActive |-> TRUE] : u \in {OtherUrl, FtpUrl}}

NextRegistry ==
    \/ \E dto \in CreateDtos : Create(dto)
    \/ \E id \in WebhookIds, dto \in UpdateDtos : Update(id, dto)
    \/ \E id \in WebhookIds : Remove(id)
    \/ \E id \in WebhookIds : IncrementFailureCount(id)

SpecRegistry == Init /\ [][NextRegistry]_vars

-----------------------------------------------------------------------------
(* Statistics over the records of two subscriptions. *)

\* A record as the dispatch and one attempt leave it: pending, success after
\* a 200, failed after a 500.
StoredDelivery(webhookId, status) ==
    LET d == NewDelivery(webhookId, "split.created", "payload")
        started == [d EXCEPT !.attemptCount = 1]
    IN IF status = PENDING THEN d
       ELSE IF status = SUCCESS THEN Responded(started, Response(200), 0)
       ELSE Responded(started, Response(500), 0)

InitStats ==
    /\ webhooks = [id \in WebhookIds |-> InitialWebhook(0)]
    /\ \E n \in 0..MaxRecords :
          \E owner \in [1..n -> WebhookIds], st \in [1..n -> {PENDING, SUCCESS, FAILED}] :
              /\ deliveries = [d \in 1..n |-> StoredDelivery(owner[d], st[d])]
              /\ issuedDeliveries = n
    /\ issuedWebhooks = WebhookIds
    /\ jobs = <<>>
    /\ rateLimitMap = [id \in WebhookIds |-> Null]
    /\ trig = IdleTrigger
    /\ now = 0
    /\ ticks = 0
    /\ callLog = [id \in WebhookIds |-> <<>>]
    /\ reply = Null

NextStats ==
    \/ \E id \in WebhookIds : GetDeliveryStats(id)
    \/ \E id \in WebhookIds : Remove(id)

SpecStats == InitStats /\ [][NextStats]_vars

-----------------------------------------------------------------------------
(* The manual test of a subscription, with a second subscription of the same
   or of another owner. *)

NextTest ==
    \/ \E dto \in DispatchDtos : Create(dto)
    \/ \E id \in WebhookIds, dto \in ActiveDtos : Update(id, dto)
    \/ \E id \in WebhookIds, e \in EventTypes : TestWebhook(id, e, "payload")
    \/ \E id \in WebhookIds : QueueDelivery(id, "none")
    \/ TriggerReturn

SpecTest == InitDispatch /\ [][NextTest]_vars

-----------------------------------------------------------------------------
(* A destination that fails every attempt, while events keep being
   triggered. *)

\* The subscription starts a few failures short of the threshold.
NearThreshold == {FAILURE_THRESHOLD - 2, FAILURE_THRESHOLD - 1}

InitConverge ==
    /\ \E n \in NearThreshold : webhooks = [id \in {"w1"} |-> InitialWebhook(n)]
    /\ deliveries = <<>>
    /\ issuedWebhooks = {"w1"}
    /\ issuedDeliveries = 0
    /\ jobs = <<>>
    /\ rateLimitMap = [id \in WebhookIds |-> Null]
    /\ trig = IdleTrigger
    /\ now = 0
    /\ ticks = 0
    /\ callLog = [id \in WebhookIds |-> <<>>]
    /\ reply = Null

\* The service that raises events: triggerEvent, its loop and its return.
Dispatching ==
    \/ TriggerEvent("split.created", "payload", Null)
    \/ QueueDelivery("w1", "none")
    \/ TriggerReturn

\* The queue's consumer: every attempt ends with a non-2xx response or with
\* an exception.
Working ==
    \/ \E j \in DeliveryIds : StartAttempt(j)
    \/ \E j \in DeliveryIds : HttpResponse(j, Response(500))
    \/ \E j \in DeliveryIds : HttpThrow(j, Timeout)
    \/ \E j \in DeliveryIds : UpdateWebhookStats(j)
    \/ \E j \in DeliveryIds : UpdateWebhookFailure(j)

NextConverge == Dispatching \/ Working

\* The event loop runs every continuation that is ready, and the consumer
\* takes every job that waits.
SpecConverge ==
    InitConverge /\ [][NextConverge]_vars
    /\ WF_vars(Dispatching) /\ WF_vars(Working)

-----------------------------------------------------------------------------
(* Several instances of the application consume webhook_queue: the queue is
   kept in Redis (BullModule.registerQueue), every instance registers
   WebhookProcessor, and each runs Concurrency jobs at a time. Dispatches of
   one subscription are then attempted side by side. *)

InitAtomic == InitConverge /\ webhooks["w1"].failureCount = FAILURE_THRESHOLD - 2

NextAtomic ==
    \/ TriggerEvent("split.created", "payload", Null)
    \/ QueueDelivery("w1", "none")
    \/ TriggerReturn
    \/ \E j \in DeliveryIds : Consume(j, Consumers * Concurrency)
    \/ \E j \in DeliveryIds, s \in {200, 500} : HttpResponse(j, Response(s))
    \/ \E j \in DeliveryIds : HttpThrow(j, Timeout)
    \/ \E j \in DeliveryIds : UpdateWebhookStats(j)
    \/ \E j \in DeliveryIds : UpdateWebhookFailure(j)

SpecAtomic == InitAtomic /\ [][NextAtomic]_vars

-----------------------------------------------------------------------------
(* A destination that cannot be reached: every attempt throws, with messages
   of every length, while the subscription may be deleted. *)

NextThrow ==
    \/ TriggerEvent("split.created", "payload", Null)
    \/ QueueDelivery("w1", "none")
    \/ TriggerReturn
    \/ Remove("w1")
    \/ \E j \in DeliveryIds : StartAttempt(j)
    \/ \E j \in DeliveryIds, n \in MessageLengths : HttpThrow(j, ErrorOf(n))
    \/ \E j \in DeliveryIds : UpdateWebhookFailure(j)

SpecThrow == InitDispatch /\ [][NextThrow]_vars

-----------------------------------------------------------------------------
(* The owner changes the destination and the secret of a subscription while
   its dispatches are attempted. *)

RequestDtos == {[url |-> OtherUrl], [secret |-> "secret-2"]}

NextRequest ==
    \/ \E dto \in RequestDtos : Update("w1", dto)
    \/ TriggerEvent("split.created", "payload", Null)
    \/ QueueDelivery("w1", "none")
    \/ TriggerReturn
    \/ \E j \in DeliveryIds : StartAttempt(j)
    \/ \E j \in DeliveryIds : HttpResponse(j, Response(200))
    \/ \E j \in DeliveryIds : HttpThrow(j, Timeout)
    \/ \E j \in DeliveryIds : UpdateWebhookStats(j)
    \/ \E j \in DeliveryIds : UpdateWebhookFailure(j)

SpecRequest == InitDispatch /\ [][NextRequest]_vars

-----------------------------------------------------------------------------
(* Properties of the registry and the delivery worker *)

Stored(w) == w \in DOMAIN webhooks
StoredNext(w) == w \in DOMAIN webhooks'

Inactive(w) == w \in DOMAIN webhooks /\ ~webhooks[w].isActive

OverThresholdActive(whs, w) ==
    w \in DOMAIN whs /\ whs[w].failureCount >= 10 /\ whs[w].isActive

\* The step is update(w, patch) with isActive = v in the patch.
UpdatesActive(w, v) == Update(w, [isActive |-> v])

\* The step is the save of the webhook by a delivery attempt of job j.
WorkerSaves(j, w) ==
    /\ j \in DOMAIN jobs
    /\ jobs[j].data.webhookId = w
    /\ jobs[j].webhook # Null
    /\ UpdateWebhookStats(j) \/ UpdateWebhookFailure(j)

\* C1 as claimed: in every reachable state a subscription whose
\* consecutiveFailures (failureCount) is >= 10 has active (isActive) = false.
C1_Original ==
    \A w \in DOMAIN webhooks :
        webhooks[w].failureCount >= 10 => ~webhooks[w].isActive

\* C1 as amended: no step other than an explicit update(id, {isActive: true})
\* brings a subscription to consecutiveFailures >= 10 with active = true; every
\* save of a recorded failure that stores a count >= 10 stores active = false.
C1_ThresholdDeactivates ==
    [][\A w \in WebhookIds :
          (OverThresholdActive(webhooks', w) /\ ~OverThresholdActive(webhooks, w))
              => UpdatesActive(w, TRUE)]_vars

\* A subscription that a recorded failure took to the threshold and deactivated.
C1_Witness ==
    \E w \in DOMAIN webhooks :
        /\ webhooks[w].failureCount = 10
        /\ ~webhooks[w].isActive
        /\ \E d \in DOMAIN deliveries :
              deliveries[d].webhookId = w /\ deliveries[d].status = FAILED

\* C3: when the POST throws, attempts 1 and 2 leave the webhooks table as it
\* is, the 3rd attempt raises the stored consecutiveFailures of the owning
\* subscription by exactly 1, and a job that failed 3 attempts leaves its
\* record failed, with an errorMessage and attemptCount = 3.
C3_ExhaustedDispatch ==
    [][/\ \A j \in DOMAIN jobs :
            UpdateWebhookFailure(j) =>
                IF jobs[j].delivery[1].attemptCount < 3
                THEN webhooks' = webhooks
                ELSE Stored(jobs[j].data.webhookId) =>
                        /\ jobs[j].webhook # Null
                        /\ webhooks'[jobs[j].data.webhookId].failureCount
                              = webhooks[jobs[j].data.webhookId].failureCount + 1
       /\ \A j \in DOMAIN jobs' :
            (jobs'[j].st = "failed" /\ j \in DOMAIN deliveries') =>
                /\ deliveries'[j].status = FAILED
                /\ deliveries'[j].errorMessage # Null
                /\ deliveries'[j].attemptCount = 3]_vars

\* A dispatch whose three attempts all threw: the record never saw a response,
\* and the subscription carries the one failure.
C3_Witness ==
    \E j \in DOMAIN jobs :
        /\ jobs[j].st = "failed"
        /\ jobs[j].attemptsMade = 3
        /\ j \in DOMAIN deliveries
        /\ deliveries[j].attemptCount = 3
        /\ deliveries[j].status = FAILED
        /\ deliveries[j].httpStatus = Null
        /\ deliveries[j].errorMessage = Some(Timeout)
        /\ Stored(jobs[j].data.webhookId)
        /\ webhooks[jobs[j].data.webhookId].failureCount = 1

C5_SuccessKeepsActive ==
    [][/\ \A j \in DOMAIN jobs :
            (UpdateWebhookStats(j) /\ jobs[j].response[1] \in 200..299
                /\ jobs[j].webhook # Null /\ Stored(jobs[j].data.webhookId))
            => /\ webhooks'[jobs[j].data.webhookId].failureCount = 0
               /\ webhooks'[jobs[j].data.webhookId].lastTriggeredAt # Null
               /\ webhooks'[jobs[j].data.webhookId].isActive
                     = webhooks[jobs[j].data.webhookId].isActive
       /\ \A w \in WebhookIds :
            (Stored(w) /\ StoredNext(w) /\ ~webhooks[w].isActive
                /\ webhooks'[w].isActive)
            => UpdatesActive(w, TRUE)]_vars

\* C6 as claimed: active changes from true to false only by a recorded failure
\* that brings consecutiveFailures to >= 10.
C6_Original ==
    [][\A w \in WebhookIds :
          (Stored(w) /\ StoredNext(w) /\ webhooks[w].isActive
              /\ ~webhooks'[w].isActive)
          => /\ webhooks'[w].failureCount >= 10
             /\ webhooks'[w].failureCount = webhooks[w].failureCount + 1]_vars

\* C6 as amended: active changes from true to false only by an explicit
\* update(id, {isActive: false}) or by the save of a delivery attempt, and
\* that save stores false only when the failure it records brings the count
\* to >= 10 or when the attempt had read the subscription inactive.
C6_DeactivationPaths ==
    [][\A w \in WebhookIds :
          (Stored(w) /\ StoredNext(w) /\ webhooks[w].isActive
              /\ ~webhooks'[w].isActive)
          => \/ UpdatesActive(w, FALSE)
             \/ \E j \in DOMAIN jobs :
                   /\ WorkerSaves(j, w)
                   /\ \/ /\ webhooks'[w].failureCount >= 10
                         /\ webhooks'[w].failureCount
                               = jobs[j].webhook[1].failureCount + 1
                      \/ ~jobs[j].webhook[1].isActive]_vars

\* A subscription deactivated by its 10th failure, never by an update: its
\* failed record carries the response of the attempt.
C6_Witness ==
    \E w \in DOMAIN webhooks :
        /\ webhooks[w].failureCount >= 10
        /\ ~webhooks[w].isActive
        /\ \E d \in DOMAIN deliveries :
              /\ deliveries[d].webhookId = w
              /\ deliveries[d].httpStatus = Some(500)
              /\ d \notin DOMAIN jobs

-----------------------------------------------------------------------------
(* Properties of the dispatch *)

\* The subscriptions a trigger has to serve, from the table its query saw.
Matching(t) ==
    {w \in DOMAIN t.db :
        /\ t.db[w].isActive
        /\ t.eventType \in t.db[w].events
        /\ t.userId # Null => t.db[w].userId = t.userId[1]}

RecordsFor(t, w) == {c \in t.created : c.row.webhookId = w}
JobsFor(t, w) == {q \in t.queued : q.webhookId = w}

\* C2: when triggerEvent returns, it has created exactly one record (pending,
\* attemptCount 0) and enqueued exactly one job for every subscription that
\* was active, subscribed to the event, of the given owner and admitted by the
\* rate limiter, and none for any other subscription.
C2_FanOut ==
    trig.st = "returned" =>
        /\ trig.admitted \cup trig.rejected = Matching(trig)
        /\ \A w \in WebhookIds :
              LET n == IF w \in Matching(trig) /\ w \in trig.admitted THEN 1 ELSE 0
              IN /\ Cardinality(RecordsFor(trig, w)) = n
                 /\ Cardinality(JobsFor(trig, w)) = n
        /\ \A c \in trig.created :
              /\ c.row.status = PENDING
              /\ c.row.attemptCount = 0
              /\ c.row.eventType = trig.eventType
              /\ \E q \in trig.queued :
                    q.deliveryId = c.id /\ q.webhookId = c.row.webhookId
        /\ Cardinality(trig.queued) = Cardinality(trig.created)

\* A trigger that served one of two subscribed subscriptions of the owner and
\* skipped the other, which was inactive.
C2_Witness ==
    /\ trig.st = "returned"
    /\ trig.userId = Some("u1")
    /\ DOMAIN trig.db = {"w1", "w2"}
    /\ \A w \in DOMAIN trig.db : trig.eventType \in trig.db[w].events
    /\ ~trig.db["w2"].isActive
    /\ Cardinality(trig.created) = 1
    /\ \E c \in trig.created : c.row.webhookId = "w1" /\ c.id \in DOMAIN jobs

\* The rate limiter turns the call for webhook w down: its window is open and full.
WindowFull(w) ==
    /\ rateLimitMap[w] # Null
    /\ now <= rateLimitMap[w][1].resetAt
    /\ rateLimitMap[w][1].count >= 10

\* C9: a dispatch the rate limiter rejects creates no record and no job,
\* leaves the webhooks table (consecutiveFailures, active) as it is, and the
\* loop goes on with the subscriptions that remain, each of which is served
\* before triggerEvent returns.
C9_RejectedIsSkipped ==
    [][/\ \A w \in WebhookIds :
            (QueueDelivery(w, "none") /\ WindowFull(w)) =>
                /\ webhooks' = webhooks
                /\ deliveries' = deliveries
                /\ jobs' = jobs
                /\ trig'.created = trig.created /\ trig'.queued = trig.queued
                /\ trig'.todo = trig.todo \ {w}
                /\ trig.todo # {w} => trig'.st = "running"
       /\ trig'.st = "returned" =>
            \A w \in Matching(trig') \ trig'.rejected :
                RecordsFor(trig', w) # {} /\ JobsFor(trig', w) # {}]_vars

\* A trigger whose first dispatch was rejected and whose second was served.
C9_Witness ==
    /\ trig.st = "returned"
    /\ Len(trig.handled) = 2
    /\ trig.handled[1] \in trig.rejected
    /\ trig.handled[2] \in trig.admitted
    /\ RecordsFor(trig, trig.handled[1]) = {}
    /\ RecordsFor(trig, trig.handled[2]) # {}

-----------------------------------------------------------------------------
(* Properties of the rate limiter *)

\* The call that opened the window in which call i of the log falls: the first
\* call, or the first call made more than 60 s after the one that opened the
\* window before.
RECURSIVE WindowStart(_, _)
WindowStart(log, i) ==
    IF i = 1 THEN 1
    ELSE LET s == WindowStart(log, i - 1)
         IN IF log[i].t > log[s].t + 60000 THEN i ELSE s

\* C7: of the calls for one subscription inside one window the first 10 return
\* true and the 11th and later ones false; the first call after the window
\* expired returns true and leaves a new window with count 1.
C7_WindowBoundary ==
    \A w \in WebhookIds :
        /\ \A i \in 1..Len(callLog[w]) :
              callLog[w][i].admit = (i - WindowStart(callLog[w], i) + 1 <= 10)
        /\ (callLog[w] # <<>>
              /\ WindowStart(callLog[w], Len(callLog[w])) = Len(callLog[w]))
           => /\ rateLimitMap[w] # Null
              /\ rateLimitMap[w][1].count = 1
              /\ rateLimitMap[w][1].resetAt = callLog[w][Len(callLog[w])].t + 60000

\* Ten calls admitted, the 11th rejected in the same window, the 12th admitted
\* after the window expired.
C7_Witness ==
    \E w \in WebhookIds :
        /\ Len(callLog[w]) = 12
        /\ \A i \in 1..10 : callLog[w][i].admit
        /\ ~callLog[w][11].admit
        /\ callLog[w][11].t <= callLog[w][1].t + 60000
        /\ callLog[w][12].admit
        /\ callLog[w][12].t > callLog[w][1].t + 60000
        /\ rateLimitMap[w][1].count = 1

Admitted(log) == {i \in 1..Len(log) : log[i].admit}

\* C8 as claimed: a sliding window: in every interval shorter than 60 s at
\* most 10 calls for one subscription return true.
C8_Original ==
    \A w \in WebhookIds :
        \A i, j \in Admitted(callLog[w]) :
            (i <= j /\ callLog[w][j].t - callLog[w][i].t < 60000)
            => Cardinality({k \in Admitted(callLog[w]) : i <= k /\ k <= j}) <= 10

\* C8 as amended: a fixed window, opened by the first call after the window
\* before expired: at most 10 of the calls inside one window return true,
\* whatever the number of admitted calls in a 60 s interval that spans the
\* boundary of two windows.
C8_FixedWindow ==
    \A w \in WebhookIds :
        \A ws \in {[k \in 1..Len(callLog[w]) |-> WindowStart(callLog[w], k)]} :
            \A i \in 1..Len(callLog[w]) :
                ws[i] = i =>
                    Cardinality({k \in Admitted(callLog[w]) : ws[k] = i}) <= 10

\* A burst across the boundary of two windows: 11 admitted calls within 1 ms.
C8_Witness ==
    \E w \in WebhookIds :
        \E i, j \in Admitted(callLog[w]) :
            /\ j - i = 10
            /\ \A k \in i..j : callLog[w][k].admit
            /\ callLog[w][j].t - callLog[w][i].t <= 1
            /\ WindowStart(callLog[w], i) # WindowStart(callLog[w], j)

-----------------------------------------------------------------------------
(* Properties of the classification of responses *)

\* C10: an attempt that receives HTTP status S stores the record with status
\* success iff 200 <= S < 300 and failed otherwise, with httpStatus = S and
\* deliveredAt set, and with errorMessage "HTTP <S>: <statusText>" when S is
\* outside [200, 300).
C10_Classification ==
    [][\A j \in DeliveryIds, s \in HttpStatuses :
         (HttpResponse(j, Response(s)) /\ jobs'[j].pc = "stats")
         => LET id == jobs[j].data.deliveryId IN
            /\ id \in DOMAIN deliveries'
            /\ deliveries'[id].status =
                  (IF 200 <= s /\ s < 300 THEN "success" ELSE "failed")
            /\ deliveries'[id].httpStatus = <<s>>
            /\ deliveries'[id].deliveredAt = <<now>>
            /\ (s < 200 \/ s >= 300)
               => deliveries'[id].errorMessage =
                    <<[id |-> <<"HTTP", s, Response(s).statusText.id>>,
                       len |-> 5 + 3 + 2 + Response(s).statusText.len]>>]_vars

\* One record classified success at 299 and another failed at 300, the second
\* on a retry after a thrown attempt.
C10_Witness ==
    \E a, b \in DOMAIN deliveries :
        /\ deliveries[a].httpStatus = <<299>>
        /\ deliveries[a].status = "success"
        /\ deliveries[b].httpStatus = <<300>>
        /\ deliveries[b].status = "failed"
        /\ deliveries[b].attemptCount = 2
        /\ deliveries[b].errorMessage # Null

-----------------------------------------------------------------------------
(* Properties of the queue *)

\* The attempts of job j that are in flight: the job is active.
InFlight(j) == IF jobs[j].st = "active" THEN 1 ELSE 0

\* C11: a dispatch gets at most 3 attempts, one after the other: a job is in
\* flight at most once, every attempt started before the one in flight has
\* concluded with a failure (the record's attemptCount is the job's number of
\* failed attempts, plus the one in flight), and a job that starts an attempt
\* has fewer than 3 failed attempts behind it.
C11_SequentialAttempts ==
    /\ \A d \in DOMAIN deliveries : deliveries[d].attemptCount <= 3
    /\ \A j \in DOMAIN jobs :
          /\ jobs[j].attemptsMade + InFlight(j) <= 3
          /\ jobs[j].st = "waiting" => jobs[j].attemptsMade < 3
          /\ jobs[j].st = "failed" => jobs[j].attemptsMade = 3
          /\ jobs[j].data.deliveryId \in DOMAIN deliveries =>
                deliveries[jobs[j].data.deliveryId].attemptCount
                    = jobs[j].attemptsMade + InFlight(j)
          /\ jobs[j].st = "active" =>
                /\ jobs[j].delivery # Null
                /\ jobs[j].delivery[1].attemptCount = jobs[j].attemptsMade + 1

\* A dispatch in its third attempt, after two attempts that threw.
C11_Witness ==
    \E j \in DOMAIN jobs :
        /\ jobs[j].st = "active"
        /\ jobs[j].attemptsMade = 2
        /\ j \in DOMAIN deliveries
        /\ deliveries[j].attemptCount = 3

-----------------------------------------------------------------------------
(* Properties of the stored texts *)

\* C12: in every reachable state every record's responseBody has at most 1000
\* characters and its errorMessage at most 500, whatever the length of the
\* response body, the status text or the exception message.
C12_Truncation ==
    \A d \in DOMAIN deliveries :
        /\ deliveries[d].responseBody # Null =>
              deliveries[d].responseBody[1].len <= 1000
        /\ deliveries[d].errorMessage # Null =>
              deliveries[d].errorMessage[1].len <= 500

-----------------------------------------------------------------------------
(* Properties of the registry calls *)

\* C13: incrementFailureCount on a stored subscription raises failureCount by
\* exactly 1, stores isActive = false when the new count is >= 10 and leaves
\* isActive as it was otherwise, and touches nothing else; on an unknown id
\* it throws NotFoundException and leaves the table as it is.
C13_IncrementFailureCount ==
    /\ [](\A id \in WebhookIds \ DOMAIN webhooks :
            IncrementOutcome(webhooks, id) = Threw("NotFoundException", webhooks))
    /\ [][\A id \in WebhookIds :
            IncrementFailureCount(id) =>
                /\ id \in DOMAIN webhooks
                /\ DOMAIN webhooks' = DOMAIN webhooks
                /\ webhooks'[id].failureCount = webhooks[id].failureCount + 1
                /\ webhooks'[id].isActive =
                      (webhooks[id].isActive /\ webhooks[id].failureCount + 1 < 10)
                /\ \A f \in DOMAIN webhooks[id] \ {"failureCount", "isActive"} :
                      webhooks'[id][f] = webhooks[id][f]
                /\ \A w \in DOMAIN webhooks \ {id} : webhooks'[w] = webhooks[w]]_vars

\* One subscription deactivated by its 10th failure, another still active
\* after its 6th.
C13_Witness ==
    /\ \E w \in DOMAIN webhooks :
          webhooks[w].failureCount = 10 /\ ~webhooks[w].isActive
    /\ \E w \in DOMAIN webhooks :
          webhooks[w].failureCount = 6 /\ webhooks[w].isActive
    /\ issuedWebhooks = WebhookIds

\* The destinations that are well-formed http or https URLs.
WellFormed == {"https://example.com/webhook", "http://newurl.com/webhook"}

\* C14: create with a destination that is not a well-formed http/https URL
\* throws BadRequestException and stores nothing; with a valid destination it
\* stores one new subscription with isActive = true and failureCount = 0,
\* whatever other fields the request carries, and leaves the others alone.
C14_Create ==
    /\ [](\A dto \in CreateDtos, id \in WebhookIds :
            dto.url \notin WellFormed =>
                CreateOutcome(webhooks, id, dto)
                    = Threw("BadRequestException", webhooks))
    /\ [][\A dto \in CreateDtos :
            Create(dto) =>
                /\ dto.url \in WellFormed
                /\ Cardinality(DOMAIN webhooks' \ DOMAIN webhooks) = 1
                /\ \A w \in DOMAIN webhooks' \ DOMAIN webhooks :
                      /\ webhooks'[w].isActive
                      /\ webhooks'[w].failureCount = 0
                      /\ webhooks'[w].url = dto.url
                      /\ webhooks'[w].userId = dto.userId
                      /\ webhooks'[w].events = dto.events
                      /\ webhooks'[w].secret = dto.secret
                /\ \A w \in DOMAIN webhooks : webhooks'[w] = webhooks[w]]_vars

\* The second subscription as create stored it, while the first is inactive
\* with failures counted.
C14_Witness ==
    /\ DOMAIN webhooks = WebhookIds
    /\ webhooks["w2"].userId = "u2"
    /\ webhooks["w2"].url = GoodUrl
    /\ webhooks["w2"].isActive
    /\ webhooks["w2"].failureCount = 0
    /\ webhooks["w2"].lastTriggeredAt = Null
    /\ ~webhooks["w1"].isActive
    /\ webhooks["w1"].failureCount = 3

-----------------------------------------------------------------------------
(* Properties of the statistics *)

\* The records of webhook w with the given status.
WithStatus(w, status) ==
    {d \in DOMAIN deliveries :
        deliveries[d].webhookId = w /\ deliveries[d].status = status}

\* C16: getDeliveryStats returns total = number of the subscription's records,
\* success / failed / pending = number of them with that status, so that
\* total = success + failed + pending, and successRate = success / total * 100
\* when total > 0 and 0 when total = 0.
C16_Stats ==
    [][\A w \in WebhookIds :
          GetDeliveryStats(w) =>
              \E r \in {reply'[1].stats} :
                  /\ r.total = Cardinality({d \in DOMAIN deliveries :
                                              deliveries[d].webhookId = w})
                  /\ r.success = Cardinality(WithStatus(w, "success"))
                  /\ r.failed = Cardinality(WithStatus(w, "failed"))
                  /\ r.pending = Cardinality(WithStatus(w, "pending"))
                  /\ r.total = r.success + r.failed + r.pending
                  /\ r.successRate.den > 0
                  /\ r.total > 0 =>
                        r.successRate.num * r.total
                            = r.success * 100 * r.successRate.den
                  /\ r.total = 0 => r.successRate.num = 0]_vars

\* The statistics of records with statuses success, success, failed, pending:
\* 4, 2, 1, 1 and a rate of 50.
C16_Witness ==
    /\ reply # Null
    /\ reply[1].stats.total = 4
    /\ reply[1].stats.success = 2
    /\ reply[1].stats.failed = 1
    /\ reply[1].stats.pending = 1
    /\ reply[1].stats.successRate.num = 50 * reply[1].stats.successRate.den

-----------------------------------------------------------------------------
(* Properties of the records' lifetime *)

\* C17: records never outlive their subscription: every stored record
\* references a stored subscription in every reachable state, and remove(id)
\* leaves no record of subscription id.
C17_NoOrphanRecords ==
    /\ [](\A d \in DOMAIN deliveries : deliveries[d].webhookId \in DOMAIN webhooks)
    /\ [][\A id \in WebhookIds :
            Remove(id) =>
                /\ id \notin DOMAIN webhooks'
                /\ \A d \in DOMAIN deliveries' : deliveries'[d].webhookId # id]_vars

\* The subscription was removed with a record stored and an attempt of that
\* record in flight; the record is gone.
C17_Witness ==
    /\ webhooks = <<>>
    /\ deliveries = <<>>
    /\ \E j \in DOMAIN jobs :
          /\ jobs[j].st = "active"
          /\ jobs[j].data.webhookId = "w1"
          /\ jobs[j].delivery # Null

-----------------------------------------------------------------------------
(* Properties of the trigger's outcome *)

\* C18: triggerEvent never surfaces a failure to its caller: no call of it
\* ends with its promise rejected, also when the save of a record or the
\* enqueueing of a job fails for one of the matching subscriptions.
C18_NeverThrows == trig.st # "threw"

-----------------------------------------------------------------------------
(* Properties of the manual test *)

\* C19: the manual test of subscription X creates records and jobs only for
\* X, never for another subscription of the same owner.
C19_TestTargetsOne ==
    trig.target # Null =>
        /\ \A c \in trig.created : c.row.webhookId = trig.target[1]
        /\ \A q \in trig.queued : q.webhookId = trig.target[1]

-----------------------------------------------------------------------------
(* Properties of concurrent delivery attempts *)

\* The dispatches to w whose failure has been counted: the record is failed
\* and the job has completed (a non-2xx response) or has used its attempts.
CountedFailures(w) ==
    {d \in DOMAIN deliveries :
        /\ deliveries[d].webhookId = w
        /\ deliveries[d].status = FAILED
        /\ d \in DOMAIN jobs => jobs[d].st = "failed"}

NoSuccess(w) ==
    \A d \in DOMAIN deliveries :
        deliveries[d].webhookId = w => deliveries[d].status # SUCCESS

\* C21: the consecutiveFailures/active pair is updated atomically under every
\* interleaving of concurrent attempts for the subscription: with no success,
\* k counted failures raise consecutiveFailures (8 at the start) by k, a
\* subscription with 10 or more counted failures is inactive, and the save
\* of an attempt never makes an inactive subscription active.
C21_AtomicUpdate ==
    /\ [](NoSuccess("w1") =>
            /\ webhooks["w1"].failureCount
                  = FAILURE_THRESHOLD - 2 + Cardinality(CountedFailures("w1"))
            /\ webhooks["w1"].failureCount >= 10 => ~webhooks["w1"].isActive
            /\ Cardinality(CountedFailures("w1")) >= 2 => ~webhooks["w1"].isActive)
    /\ [][\A j \in DOMAIN jobs :
            (WorkerSaves(j, "w1") /\ Inactive("w1")) => Inactive("w1")']_vars

\* The step is a step of the attempt of job j that is in flight.
AttemptStep(j) ==
    /\ j \in DOMAIN jobs
    /\ jobs[j].st = "active"
    /\ j \in DOMAIN jobs' => jobs'[j] # jobs[j]

\* The dispatch of job j makes no further attempt.
Concluded(js, j) == j \in DOMAIN js => js[j].st = "failed"

\* C22: one failure credit per dispatch. A step of an attempt after which the
\* job waits for another attempt leaves the subscription as it is; the step
\* that concludes the dispatch stores consecutiveFailures as the count the
\* attempt read plus 1, or 0 after a 2xx, or leaves it; a dispatch that is
\* concluded takes no further step and its job id is never used again.
C22_OneCredit ==
    [][/\ \A j \in DOMAIN jobs :
            /\ (AttemptStep(j) /\ ~Concluded(jobs', j)) => webhooks' = webhooks
            /\ (AttemptStep(j) /\ Concluded(jobs', j) /\ webhooks' # webhooks) =>
                  /\ jobs[j].webhook # Null
                  /\ webhooks'["w1"].failureCount =
                        IF jobs[j].pc = "stats" /\ jobs[j].response[1] \in 200..299
                        THEN 0
                        ELSE jobs[j].webhook[1].failureCount + 1
                  /\ jobs[j].pc = "catch" => jobs'[j].attemptsMade = 3
            /\ jobs[j].st = "failed" => (j \in DOMAIN jobs' /\ jobs'[j] = jobs[j])
       /\ \A j \in DOMAIN jobs' \ DOMAIN jobs : j > issuedDeliveries
       /\ webhooks' # webhooks => \E j \in DOMAIN jobs : AttemptStep(j)]_vars

\* A dispatch concluded by a 2xx on a retry, which reset the count, and a
\* dispatch concluded by its third thrown attempt and counted once.
C22_Witness ==
    /\ \E j \in DOMAIN jobs : jobs[j].st = "failed" /\ jobs[j].attemptsMade = 3
    /\ \E d \in DOMAIN deliveries :
          /\ deliveries[d].status = SUCCESS
          /\ deliveries[d].attemptCount = 2
          /\ d \notin DOMAIN jobs
    /\ webhooks["w1"].failureCount = 1

-----------------------------------------------------------------------------
(* Properties of an attempt that throws *)

\* C23: when the HTTP call of an attempt throws, the record is stored with
\* status failed and errorMessage the exception message (its first 500
\* characters), httpStatus and deliveredAt stay unset, and the exception is
\* raised again: the job waits for another attempt while fewer than 3
\* attempts have been made, and is failed otherwise.
C23_ThrownAttempt ==
    [][\A j \in DeliveryIds :
         /\ \A n \in MessageLengths :
               (HttpThrow(j, ErrorOf(n)) /\ jobs'[j].pc = "catch")
               => LET id == jobs[j].data.deliveryId IN
                  /\ id \in DOMAIN deliveries'
                  /\ deliveries'[id].status = "failed"
                  /\ deliveries'[id].errorMessage =
                        <<[id |-> "message", len |-> IF n <= 500 THEN n ELSE 500]>>
                  /\ deliveries'[id].httpStatus = <<>>
                  /\ deliveries'[id].deliveredAt = <<>>
                  /\ deliveries'[id].attemptCount = deliveries[id].attemptCount
         /\ (j \in DOMAIN jobs /\ jobs[j].pc = "catch" /\ UpdateWebhookFailure(j))
               => /\ jobs'[j].attemptsMade = jobs[j].attemptsMade + 1
                  /\ jobs'[j].st = IF jobs'[j].attemptsMade < 3
                                   THEN "waiting" ELSE "failed"
                  /\ deliveries' = deliveries]_vars

\* A record failed by an exception whose message was longer than 500
\* characters, with its job waiting for the second attempt.
C23_Witness ==
    \E j \in DOMAIN jobs :
        /\ jobs[j].st = "waiting"
        /\ jobs[j].attemptsMade = 1
        /\ j \in DOMAIN deliveries
        /\ deliveries[j].status = FAILED
        /\ deliveries[j].errorMessage = <<[id |-> "message", len |-> 500]>>
        /\ deliveries[j].httpStatus = Null
        /\ deliveries[j].deliveredAt = Null
        /\ deliveries[j].attemptCount = 1

-----------------------------------------------------------------------------
(* Properties of the Delivery Record *)

\* The attempts started for the dispatch of record d: those the job has
\* concluded with a failure, and the one in flight.
AttemptsStarted(d) == jobs[d].attemptsMade + InFlight(d)

\* C24: attemptCount of a record is the number of attempts started for it: 0
\* when the record is created, raised by exactly 1 and stored by the step
\* that starts an attempt, before the HTTP call (so an attempt that throws is
\* counted), never lowered, and never above 3.
C24_AttemptCount ==
    /\ [](\A d \in DOMAIN deliveries :
            /\ deliveries[d].attemptCount \in 0..3
            /\ d \in DOMAIN jobs => deliveries[d].attemptCount = AttemptsStarted(d))
    /\ [][\A d \in DOMAIN deliveries' :
            IF d \in DOMAIN deliveries
            THEN /\ deliveries'[d].attemptCount >= deliveries[d].attemptCount
                 /\ deliveries'[d].attemptCount # deliveries[d].attemptCount
                    => /\ StartAttempt(d)
                       /\ deliveries'[d].attemptCount = deliveries[d].attemptCount + 1
                       /\ jobs'[d].pc = "http"
            ELSE deliveries'[d].attemptCount = 0]_vars

\* A record whose third attempt is in flight, counted before its HTTP call
\* has returned, after two attempts that threw.
C24_Witness ==
    \E d \in DOMAIN deliveries :
        /\ deliveries[d].attemptCount = 3
        /\ deliveries[d].status = FAILED
        /\ deliveries[d].httpStatus = Null
        /\ d \in DOMAIN jobs
        /\ jobs[d].pc = "http"
        /\ jobs[d].attemptsMade = 2

\* C25: a record is created pending; it is pending only while no attempt of
\* its dispatch has completed (its job has concluded no attempt and has not
\* completed), and a record that is success or failed never becomes pending.
C25_StatusMachine ==
    /\ [](\A d \in DOMAIN deliveries :
            /\ deliveries[d].status \in {PENDING, SUCCESS, FAILED}
            /\ deliveries[d].status = PENDING
               => /\ d \in DOMAIN jobs
                  /\ jobs[d].attemptsMade = 0
                  /\ jobs[d].pc \in {"none", "http"})
    /\ [][\A d \in DOMAIN deliveries' :
            IF d \in DOMAIN deliveries
            THEN deliveries[d].status # PENDING => deliveries'[d].status # PENDING
            ELSE deliveries'[d].status = PENDING]_vars

\* A record failed by a thrown first attempt is still failed, not pending,
\* while its second attempt is in flight.
C25_Witness ==
    \E d \in DOMAIN deliveries :
        /\ deliveries[d].status = FAILED
        /\ deliveries[d].attemptCount = 2
        /\ d \in DOMAIN jobs
        /\ jobs[d].pc = "http"

C27_DeliveredIffStatus ==
    \A d \in DOMAIN deliveries :
        /\ deliveries[d].deliveredAt # Null <=> deliveries[d].httpStatus # Null
        /\ deliveries[d].status = SUCCESS
           => /\ deliveries[d].httpStatus # Null
              /\ deliveries[d].httpStatus[1] >= 200
              /\ deliveries[d].httpStatus[1] < 300
              /\ deliveries[d].deliveredAt # Null

\* A record failed by three thrown attempts, with neither field set, next to
\* a record that succeeded with status 299.
C27_Witness ==
    \E a, b \in DOMAIN deliveries :
        /\ deliveries[a].status = FAILED
        /\ deliveries[a].attemptCount = 3
        /\ deliveries[a].httpStatus = Null
        /\ deliveries[a].deliveredAt = Null
        /\ deliveries[a].errorMessage # Null
        /\ deliveries[b].status = SUCCESS
        /\ deliveries[b].httpStatus = <<299>>
        /\ deliveries[b].deliveredAt # Null

\* C28: errorMessage of a record is never cleared once set: a step that
\* stores a 2xx response for a record whose earlier attempt threw leaves the
\* record with status success and the errorMessage of that attempt.
C28_ErrorMessageKept ==
    [][\A d \in DOMAIN deliveries \cap DOMAIN deliveries' :
         deliveries[d].errorMessage # Null
         => /\ deliveries'[d].errorMessage # Null
            /\ deliveries'[d].status = SUCCESS
               => deliveries'[d].errorMessage = deliveries[d].errorMessage]_vars

\* A record that succeeded on its second attempt and carries the message of
\* the exception of the first.
C28_Witness ==
    \E d \in DOMAIN deliveries :
        /\ deliveries[d].status = SUCCESS
        /\ deliveries[d].attemptCount = 2
        /\ deliveries[d].httpStatus = <<200>>
        /\ deliveries[d].errorMessage = <<Timeout>>

-----------------------------------------------------------------------------
(* Properties of the convergence to deactivation *)

\* The step stores a record or adds a job that was not there.
CreatesRecordOrJob ==
    \/ DOMAIN deliveries' \ DOMAIN deliveries # {}
    \/ DOMAIN jobs' \ DOMAIN jobs # {}

\* Every dispatch has stopped: no job waits or runs, after at most 3 attempts.
AllStopped ==
    /\ \A j \in DOMAIN jobs : jobs[j].st = "failed" /\ jobs[j].attemptsMade <= 3
    /\ \A d \in DOMAIN deliveries : deliveries[d].attemptCount <= 3

\* C20 as claimed: with a destination that fails every attempt and events
\* that keep being triggered, every dispatch stops after at most 3 attempts,
\* the subscription eventually becomes inactive, and once it is inactive no
\* further record or job is created for it.
C20_Original ==
    /\ <>[](Inactive("w1") /\ AllStopped)
    /\ [][Inactive("w1") => ~CreatesRecordOrJob]_vars

\* C20 as amended: every dispatch stops after at most 3 attempts and the
\* subscription eventually becomes and stays inactive; a call of triggerEvent
\* whose query runs once it is inactive serves nothing, and a record or job
\* created once it is inactive is created by a call whose query had read the
\* subscription while it was active.
C20_Converges ==
    /\ <>[](Inactive("w1") /\ AllStopped)
    /\ [][Inactive("w1") => Inactive("w1")']_vars
    /\ [][(Inactive("w1") /\ trig.st = "idle" /\ trig'.st # "idle")
            => (trig'.todo = {} /\ trig'.st = "returned")]_vars
    /\ [][(Inactive("w1") /\ CreatesRecordOrJob)
            => (trig.st = "running" /\ trig.db["w1"].isActive)]_vars

\* The subscription is inactive at the threshold, every dispatch has stopped,
\* one of them after 3 attempts, and a triggerEvent called since has returned
\* without serving it.
C20_Witness ==
    /\ Inactive("w1")
    /\ webhooks["w1"].failureCount >= 10
    /\ AllStopped
    /\ \E j \in DOMAIN jobs : jobs[j].attemptsMade = 3
    /\ trig.st = "returned"
    /\ ~trig.db["w1"].isActive
    /\ trig.created = {}

-----------------------------------------------------------------------------
(* Properties of the worker and a deactivated subscription *)

\* C29: the worker never consults the active flag. A job that waits while its
\* subscription is inactive is still attempted, and an attempt that concludes
\* a dispatch with a failure stores the count it read plus 1, also when the
\* subscription it read was inactive: the count goes beyond 10.
C29_WorkerIgnoresActive ==
    /\ \A j \in DeliveryIds :
          (j \in DOMAIN jobs /\ jobs[j].st = "waiting" /\ Inactive("w1"))
          ~> (j \in DOMAIN jobs /\ jobs[j].pc = "http" /\ Inactive("w1"))
    /\ [][\A j \in DOMAIN jobs :
            (WorkerSaves(j, "w1") /\ Concluded(jobs', j))
            => /\ webhooks'["w1"].failureCount
                     = jobs[j].webhook[1].failureCount + 1
               /\ ~jobs[j].webhook[1].isActive => ~webhooks'["w1"].isActive]_vars

\* The subscription is inactive with 11 failures: the last was counted by an
\* attempt made after the deactivation.
C29_Witness ==
    /\ Inactive("w1")
    /\ webhooks["w1"].failureCount = FAILURE_THRESHOLD + 1
    /\ \A d \in DOMAIN deliveries : deliveries[d].status = FAILED

-----------------------------------------------------------------------------
(* Properties of the request of an attempt *)

\* C30: every attempt of a job POSTs to the destination and signs with the
\* secret that were copied into the job when the dispatch was enqueued, from
\* the subscription as triggerEvent read it; the job's data never change, so
\* an update of the subscription in between changes neither.
C30_RequestFromJob ==
    /\ [](\A j \in DOMAIN jobs :
            jobs[j].pc = "http"
            => /\ jobs[j].request # Null
               /\ jobs[j].request[1].method = "POST"
               /\ jobs[j].request[1].url = jobs[j].data.url
               /\ jobs[j].request[1].signature =
                     <<"hmac-sha256", jobs[j].data.secret,
                       <<"json", jobs[j].data.payload>>>>)
    /\ [][\A j \in DOMAIN jobs' :
            IF j \in DOMAIN jobs
            THEN jobs'[j].data = jobs[j].data
            ELSE /\ jobs'[j].data.url = trig.db[jobs'[j].data.webhookId].url
                 /\ jobs'[j].data.secret = trig.db[jobs'[j].data.webhookId].secret
                 /\ jobs'[j].data.payload = trig.payload]_vars

\* The second attempt of a job is in flight to the destination and with the
\* secret of the dispatch, after the owner has changed both.
C30_Witness ==
    \E j \in DOMAIN jobs :
        /\ jobs[j].pc = "http"
        /\ jobs[j].attemptsMade = 1
        /\ jobs[j].request[1].url = GoodUrl
        /\ jobs[j].request[1].signature[2] = "secret-1"
        /\ webhooks["w1"].url = OtherUrl
        /\ webhooks["w1"].secret = "secret-2"

====
